---- MODULE Spec2Model ----
(***************************************************************************)
(* Model of genshin/models/genshin/character.py: the icon codec            *)
(* (_parse_icon, _create_icon), the character registry CHARACTER_NAMES,    *)
(* the reconciler _get_db_char and the BaseCharacter root validator.       *)
(*                                                                         *)
(* A Python str is a sequence of one-character strings, so that the        *)
(* regular expression and the substring test are computed on characters.   *)
(* None is a sentinel of each type; Python truthiness is Truthy*.          *)
(***************************************************************************)
EXTENDS Integers, Sequences, FiniteSets, TLC

(* ---------------------------------------------------------------------- *)
(* Bounds                                                                  *)
(* ---------------------------------------------------------------------- *)
\* number of concurrent callers of the module
NumProcs == 2

Procs == 1..NumProcs

(* ---------------------------------------------------------------------- *)
(* String literals of the source                                           *)
(* ---------------------------------------------------------------------- *)
ICON_BASE ==
    <<"h", "t", "t", "p", "s", ":", "/", "/", "u", "p", "l", "o", "a", "d", "-", "o", "s", "-", "b", "b", "s", ".", "m", "i", "h", "o", "y", "o", ".", "c", "o", "m", "/", "g", "a", "m", "e", "_", "r", "e", "c", "o", "r", "d", "/", "g", "e", "n", "s", "h", "i", "n", "/">>

\* the literal pieces of the pattern of _parse_icon
UI_AvatarIcon ==
    <<"U", "I", "_", "A", "v", "a", "t", "a", "r", "I", "c", "o", "n">>

SideGroup ==
    <<"_", "S", "i", "d", "e">>

Underscore ==
    <<"_">>

Png ==
    <<"p", "n", "g">>

DotPng ==
    <<".", "p", "n", "g">>

\* the marker tested by: genshin in icon
Genshin ==
    <<"g", "e", "n", "s", "h", "i", "n">>

IconSpecifier ==
    <<"c", "h", "a", "r", "a", "c", "t", "e", "r", "_", "i", "c", "o", "n", "/", "U", "I", "_", "A", "v", "a", "t", "a", "r", "I", "c", "o", "n">>

ImageSpecifier ==
    <<"c", "h", "a", "r", "a", "c", "t", "e", "r", "_", "i", "m", "a", "g", "e", "/", "U", "I", "_", "A", "v", "a", "t", "a", "r", "I", "c", "o", "n">>

SideSpecifier ==
    <<"c", "h", "a", "r", "a", "c", "t", "e", "r", "_", "s", "i", "d", "e", "_", "i", "c", "o", "n", "/", "U", "I", "_", "A", "v", "a", "t", "a", "r", "I", "c", "o", "n", "_", "S", "i", "d", "e">>

Anemo == "Anemo"

AloyId == 10000062

(* ---------------------------------------------------------------------- *)
(* None and truthiness                                                     *)
(* ---------------------------------------------------------------------- *)
NoneInt == -1

NoneStr == <<"None">>

NoneElem == "None"

TruthyInt(x) == x # NoneInt /\ x # 0

TruthyStr(s) == s # NoneStr /\ s # <<>>

TruthyElem(e) == e # NoneElem /\ e # ""

(* ---------------------------------------------------------------------- *)
(* str operations                                                          *)
(* ---------------------------------------------------------------------- *)
\* t occurs in s at position i
At(s, i, t) ==
    /\ i >= 1
    /\ i + Len(t) - 1 <= Len(s)
    /\ \A k \in 1..Len(t) : s[i + k - 1] = t[k]

\* Python `t in s`
Contains(s, t) == \E i \in 1..(Len(s) + 1) : At(s, i, t)

Min(S) == CHOOSE x \in S : \A y \in S : x <= y

Max(S) == CHOOSE x \in S : \A y \in S : x >= y

\* decimal digits of a natural number, and str(int)
Digit(d) == <<"0", "1", "2", "3", "4", "5", "6", "7", "8", "9">>[d + 1]

RECURSIVE NatToStr(_)
NatToStr(n) == IF n < 10 THEN <<Digit(n)>> ELSE NatToStr(n \div 10) \o <<Digit(n % 10)>>

IntToStr(n) == IF n < 0 THEN <<"-">> \o NatToStr(0 - n) ELSE NatToStr(n)

(* ---------------------------------------------------------------------- *)
(* re.search of the pattern of _parse_icon: UI_AvatarIcon, an optional    *)
(* _Side, an underscore, a greedy capture of any characters, any one       *)
(* character (the unescaped dot), png.                                     *)
(* The strings hold no newline, so "." matches every character.            *)
(* ---------------------------------------------------------------------- *)
\* positions e of the character matched by the "." before "png", for a
\* capture group that starts at position c (the capture is s[c..e-1])
DotPositions(s, c) == {e \in c..Len(s) : At(s, e + 1, Png)}

PrefixWithSide == UI_AvatarIcon \o SideGroup \o Underscore

PrefixNoSide == UI_AvatarIcon \o Underscore

\* start of the capture when the match begins at i and takes "_Side"
StartWithSide(i) == i + Len(PrefixWithSide)

\* start of the capture when the match begins at i and skips "_Side"
StartNoSide(i) == i + Len(PrefixNoSide)

MatchesWithSide(s, i) ==
    /\ At(s, i, PrefixWithSide)
    /\ DotPositions(s, StartWithSide(i)) # {}

MatchesNoSide(s, i) ==
    /\ At(s, i, PrefixNoSide)
    /\ DotPositions(s, StartNoSide(i)) # {}

\* positions where a match can begin
MatchStarts(s) == {i \in 1..Len(s) : MatchesWithSide(s, i) \/ MatchesNoSide(s, i)}

\* match[1]: leftmost start, the optional group taken if the rest then
\* matches, the capture as long as possible
Group1(s) ==
    LET i == Min(MatchStarts(s))
        c == IF MatchesWithSide(s, i) THEN StartWithSide(i) ELSE StartNoSide(i)
    IN  SubSeq(s, c, Max(DotPositions(s, c)) - 1)

\* _parse_icon on a str argument
ParseIconIdentity(icon) == icon

ParseIconNoFallback(icon) == IF MatchStarts(icon) # {} THEN Group1(icon) ELSE <<>>

ParseIcon(icon) == IF MatchStarts(icon) # {} THEN Group1(icon) ELSE icon

\* the f-string @{scale}x if scale, else the empty string
ScaleSuffixNone(scale) == <<>>

ScaleSuffix(scale) == IF scale # 0 THEN <<"@">> \o IntToStr(scale) \o <<"x">> ELSE <<>>

\* _create_icon
CreateIcon(icon, specifier, scale) ==
    ICON_BASE \o specifier \o Underscore \o ParseIcon(icon) \o ScaleSuffix(scale) \o DotPng

(* ---------------------------------------------------------------------- *)
(* dict operations on CHARACTER_NAMES: a dict is the sequence of its       *)
(* items in insertion order                                                *)
(* ---------------------------------------------------------------------- *)
Keys(d) == {d[i].key : i \in 1..Len(d)}

DictGet(d, k) == d[CHOOSE i \in 1..Len(d) : d[i].key = k].val

\* d[k] = v
DictSetAppend(d, k, v) == Append(d, [key |-> k, val |-> v])

DictSet(d, k, v) ==
    IF k \in Keys(d)
    THEN [i \in 1..Len(d) |-> IF d[i].key = k THEN [key |-> k, val |-> v] ELSE d[i]]
    ELSE Append(d, [key |-> k, val |-> v])

\* DBChar(id, icon_name, name, element, rarity, guessed)
DBChar(id, icon_name, name, element, rarity, guessed) ==
    [id |-> id, icon_name |-> icon_name, name |-> name, element |-> element,
     rarity |-> rarity, guessed |-> guessed]

\* first item, in insertion order, whose icon_name is the given one (0: none)
FindByIconName(d, icon_name) ==
    LET S == {i \in 1..Len(d) : d[i].val.icon_name = icon_name}
    IN  IF S = {} THEN 0 ELSE Min(S)

\* first item, in insertion order, whose name is the given one (0: none)
FindByNameLast(d, name) ==
    LET S == {i \in 1..Len(d) : d[i].val.name = name}
    IN  IF S = {} THEN 0 ELSE Max(S)

FindByName(d, name) ==
    LET S == {i \in 1..Len(d) : d[i].val.name = name}
    IN  IF S = {} THEN 0 ELSE Min(S)

(* ---------------------------------------------------------------------- *)
(* The built-in dataset and the inputs of the callers                      *)
(* ---------------------------------------------------------------------- *)
Qin ==
    <<"Q", "i", "n">>

Jean ==
    <<"J", "e", "a", "n">>

Aloy ==
    <<"A", "l", "o", "y">>

Ayaka ==
    <<"A", "y", "a", "k", "a">>

Klee ==
    <<"K", "l", "e", "e">>

JeanId == 10000003

AyakaId == 10000002

KleeId == 10000029

\* CHARACTER_NAMES as imported from .constants
BuiltIn ==
    << [key |-> JeanId, val |-> DBChar(JeanId, Qin, Jean, "Anemo", 5, FALSE)],
       [key |-> AloyId, val |-> DBChar(AloyId, Aloy, Aloy, "Cryo", 105, FALSE)] >>

\* icon strings as the API sends them, and the shorthand without a URL
IconQin == ICON_BASE \o IconSpecifier \o Underscore \o Qin \o DotPng

IconAyaka == ICON_BASE \o IconSpecifier \o Underscore \o Ayaka \o DotPng

IconSideKlee == ICON_BASE \o SideSpecifier \o Underscore \o Klee \o DotPng

BareAyaka == UI_AvatarIcon \o Underscore \o Ayaka \o DotPng

Ids == {NoneInt, 0, JeanId, AloyId, AyakaId, KleeId}

Names == {NoneStr, Jean, Ayaka}

\* a shorthand that carries a scale mark
ShortQin2x ==
    <<"Q", "i", "n", "@", "2", "x">>

Icons == {NoneStr, <<>>, IconQin, IconAyaka, IconSideKlee, BareAyaka, ShortQin2x}

Elements == {NoneElem, "Cryo"}

Rarities == {NoneInt, 5, 105}

PartialInput(id, name, icon, element, rarity) ==
    [id |-> id, name |-> name, icon |-> icon, element |-> element, rarity |-> rarity]

Inputs ==
    {PartialInput(id, name, icon, element, rarity) :
        id \in Ids, name \in Names, icon \in Icons, element \in Elements, rarity \in Rarities}

NoInput == PartialInput(NoneInt, NoneStr, NoneStr, NoneElem, NoneInt)

NoChar == DBChar(NoneInt, NoneStr, NoneStr, NoneElem, NoneInt, FALSE)

\* the values dict of the root validator, collab at its field default
Values(id, name, icon, element, rarity, collab) ==
    [id |-> id, name |-> name, icon |-> icon, element |-> element, rarity |-> rarity,
     collab |-> collab]

NoValues == Values(NoneInt, NoneStr, NoneStr, NoneElem, NoneInt, FALSE)

NoLast == [input |-> NoInput, result |-> NoChar, retline |-> 0]

(* ---------------------------------------------------------------------- *)
(* Arguments of direct calls of the icon codec                             *)
(* ---------------------------------------------------------------------- *)
\* longest argument, counted in pieces
MaxPieces == 4

SidePiece ==
    <<"S", "i", "d", "e", "_">>

LetterA ==
    <<"a">>

\* the pieces the arguments are put together from
Pieces == {PrefixNoSide, SidePiece, DotPng, Png, LetterA, Underscore}

RECURSIVE StringsUpTo(_)
StringsUpTo(n) ==
    IF n = 0 THEN {<<>>}
    ELSE LET S == StringsUpTo(n - 1)
         IN  S \cup {s \o piece : s \in S, piece \in Pieces}

Strings == StringsUpTo(MaxPieces)

Specifiers == {IconSpecifier, ImageSpecifier, SideSpecifier}

Scales == {-1, 0, 2}

NoCodec ==
    [stage |-> "off", raw |-> NoneStr, key |-> NoneStr, again |-> NoneStr,
     specifier |-> NoneStr, scale |-> 0, url |-> NoneStr]

(* ---------------------------------------------------------------------- *)
(* State                                                                   *)
(* ---------------------------------------------------------------------- *)
VARIABLES
    CHARACTER_NAMES,  \* the module-level dict id -> DBChar
    pc,               \* per caller: position in _get_db_char / the validator
    op,               \* per caller: "resolve" (_get_db_char) or "facade" (BaseCharacter)
    input,            \* per caller: the fields the caller supplied
    args,             \* per caller: the parameters of _get_db_char
    icon_name,        \* per caller: the local icon_name of _get_db_char
    result,           \* per caller: the DBChar returned by _get_db_char
    retline,          \* per caller: source line of the return or raise taken
    warned,           \* per caller: warnings emitted by the call
    values,           \* per caller: the values dict of the validator
    pre,              \* history: CHARACTER_NAMES when the call started
    last,             \* history, per caller: outcome of the call that the
                      \* current call repeats
    synth,            \* history: every record created at line 58
    codec             \* a direct call of _parse_icon or _create_icon: its
                      \* argument and what it returned

vars == <<CHARACTER_NAMES, pc, op, input, args, icon_name, result, retline, warned,
          values, pre, last, synth, codec>>

IdleInit ==
    /\ CHARACTER_NAMES = BuiltIn
    /\ pc = [p \in Procs |-> "idle"]
    /\ op = [p \in Procs |-> "none"]
    /\ input = [p \in Procs |-> NoInput]
    /\ args = [p \in Procs |-> NoInput]
    /\ icon_name = [p \in Procs |-> NoneStr]
    /\ result = [p \in Procs |-> NoChar]
    /\ retline = [p \in Procs |-> 0]
    /\ warned = [p \in Procs |-> {}]
    /\ values = [p \in Procs |-> NoValues]
    /\ pre = [p \in Procs |-> BuiltIn]
    /\ last = [p \in Procs |-> NoLast]
    /\ synth = {}

Init == IdleInit /\ codec = NoCodec

(* ---------------------------------------------------------------------- *)
(* _get_db_char                                                            *)
(* ---------------------------------------------------------------------- *)
\* line 92: the positional call of the validator
ValidatorArgs(inp) == PartialInput(inp.id, inp.icon, inp.name, inp.element, inp.rarity)

\* line 46: if id and id in CHARACTER_NAMES
IdHitNever(d, id) == FALSE

IdHit(d, id) == TruthyInt(id) /\ id \in Keys(d)

\* line 49: if icon and genshin in icon
RecognizableByPattern(icon) == TruthyStr(icon) /\ MatchStarts(icon) # {}

Recognizable(icon) == TruthyStr(icon) /\ Contains(icon, Genshin)

\* line 57: if id and name and icon and element and rarity
CanSynthesizeAnyId(a) ==
    /\ a.id # NoneInt
    /\ TruthyStr(a.name)
    /\ TruthyStr(a.icon)
    /\ TruthyElem(a.element)
    /\ TruthyInt(a.rarity)

CanSynthesize(a) ==
    /\ TruthyInt(a.id)
    /\ TruthyStr(a.name)
    /\ TruthyStr(a.icon)
    /\ TruthyElem(a.element)
    /\ TruthyInt(a.rarity)

OrElement(element) == IF TruthyElem(element) THEN element ELSE Anemo

OrRarity(rarity) == IF TruthyInt(rarity) THEN rarity ELSE 5

\* lines 63 and 71: the record of an unknown or partial character
TransientUnflagged(key, a) ==
    DBChar(0, key, key, OrElement(a.element), OrRarity(a.rarity), FALSE)

Transient(key, a) == DBChar(0, key, key, OrElement(a.element), OrRarity(a.rarity), TRUE)

\* lines 62 and 70: the warning and the fields its message shows
Warning(line, id, icon, name) == [line |-> line, id |-> id, icon |-> icon, name |-> name]

Return(p, char, line) ==
    /\ result' = [result EXCEPT ![p] = char]
    /\ retline' = [retline EXCEPT ![p] = line]
    /\ pc' = [pc EXCEPT ![p] = "returned"]

\* a caller enters _get_db_char (op resolve) or constructs a BaseCharacter
\* (op facade); lines 46-47
Enter(p, o, inp) ==
    /\ op' = [op EXCEPT ![p] = o]
    /\ input' = [input EXCEPT ![p] = inp]
    /\ values' = [values EXCEPT ![p] =
            IF o = "facade"
            THEN Values(inp.id, inp.name, inp.icon, inp.element, inp.rarity, FALSE)
            ELSE NoValues]
    /\ pre' = [pre EXCEPT ![p] = CHARACTER_NAMES]
    /\ LET a == IF o = "facade" THEN ValidatorArgs(inp) ELSE inp
       IN  /\ args' = [args EXCEPT ![p] = a]
           /\ IF IdHit(CHARACTER_NAMES, a.id)
              THEN Return(p, DictGet(CHARACTER_NAMES, a.id), 47)
              ELSE /\ pc' = [pc EXCEPT ![p] = "l49"]
                   /\ UNCHANGED <<result, retline>>
    /\ icon_name' = [icon_name EXCEPT ![p] = NoneStr]
    /\ warned' = [warned EXCEPT ![p] = {}]
    /\ UNCHANGED <<CHARACTER_NAMES, synth, codec>>

Finished(p) ==
    \/ pc[p] = "returned" /\ op[p] = "resolve"
    \/ pc[p] = "built"
    \/ pc[p] = "raised"

\* a first call
Call(p, o, inp) ==
    /\ pc[p] = "idle"
    /\ Enter(p, o, inp)
    /\ last' = [last EXCEPT ![p] = NoLast]

\* the caller resolves the same input again, right after the first call
Repeat(p) ==
    /\ Finished(p)
    /\ op[p] = "resolve"
    /\ Enter(p, "resolve", input[p])
    /\ last' = [last EXCEPT ![p] =
            [input |-> input[p], result |-> result[p], retline |-> retline[p]]]

\* lines 49-54
IconLookup(p) ==
    /\ pc[p] = "l49"
    /\ IF Recognizable(args[p].icon)
       THEN LET key == ParseIcon(args[p].icon)
                i == FindByIconName(CHARACTER_NAMES, key)
            IN  /\ icon_name' = [icon_name EXCEPT ![p] = key]
                /\ IF i # 0
                   THEN Return(p, CHARACTER_NAMES[i].val, 54)
                   ELSE /\ pc' = [pc EXCEPT ![p] = "l57"]
                        /\ UNCHANGED <<result, retline>>
       ELSE /\ pc' = [pc EXCEPT ![p] = "l65"]
            /\ UNCHANGED <<icon_name, result, retline>>
    /\ UNCHANGED <<CHARACTER_NAMES, op, input, args, warned, values, pre, last, synth,
                   codec>>

\* line 59: CHARACTER_NAMES[char.id] = char
RegisterByCount(d, char) == DictSet(d, Len(d), char)

RegisterNothing(d, char) == d

Register(d, char) == DictSet(d, char.id, char)

\* lines 56-63
Synthesize(p) ==
    /\ pc[p] = "l57"
    /\ IF CanSynthesize(args[p])
       THEN LET char == DBChar(args[p].id, icon_name[p], args[p].name,
                               args[p].element, args[p].rarity, TRUE)
            IN  /\ CHARACTER_NAMES' = Register(CHARACTER_NAMES, char)
                /\ synth' = synth \cup {char}
                /\ Return(p, char, 60)
                /\ UNCHANGED warned
       ELSE /\ warned' = [warned EXCEPT ![p] =
                    @ \cup {Warning(62, args[p].id, icon_name[p], args[p].name)}]
            /\ Return(p, Transient(icon_name[p], args[p]), 63)
            /\ UNCHANGED <<CHARACTER_NAMES, synth>>
    /\ UNCHANGED <<op, input, args, icon_name, values, pre, last, codec>>

\* lines 65-73
NameLookup(p) ==
    /\ pc[p] = "l65"
    /\ IF TruthyStr(args[p].name)
       THEN LET i == FindByName(CHARACTER_NAMES, args[p].name)
            IN  IF i # 0
                THEN Return(p, CHARACTER_NAMES[i].val, 68) /\ UNCHANGED warned
                ELSE /\ warned' = [warned EXCEPT ![p] =
                            @ \cup {Warning(70, args[p].id, NoneStr, args[p].name)}]
                     /\ Return(p, Transient(args[p].name, args[p]), 71)
       ELSE /\ pc' = [pc EXCEPT ![p] = "raised"]
            /\ retline' = [retline EXCEPT ![p] = 73]
            /\ UNCHANGED <<result, warned>>
    /\ UNCHANGED <<CHARACTER_NAMES, op, input, args, icon_name, values, pre, last, synth,
                   codec>>

(* ---------------------------------------------------------------------- *)
(* BaseCharacter.__autocomplete after the call of _get_db_char             *)
(* ---------------------------------------------------------------------- *)
\* lines 100-107: the icon field
FacadeIconKeep(supplied, char) ==
    IF TruthyStr(supplied)
    THEN supplied
    ELSE CreateIcon(char.icon_name, IconSpecifier, 0)

FacadeIcon(supplied, char) ==
    LET icon == CreateIcon(char.icon_name, IconSpecifier, 0)
    IN  IF TruthyStr(supplied)
        THEN IF ~Contains(supplied, Genshin) /\ char.id # 0 THEN icon ELSE supplied
        ELSE icon

\* lines 110-111: collab characters are stored as 105
DecodeRarityKeep(rarity) == rarity

DecodeRarity(rarity) == IF rarity > 100 THEN rarity - 100 ELSE rarity

\* lines 110-116
DecodeCollab(id, rarity, collab) ==
    IF rarity > 100 THEN TRUE
    ELSE IF id = AloyId THEN TRUE
    ELSE collab

\* lines 93-118
Autocompleted(v, char) ==
    Values(char.id, char.name, FacadeIcon(v.icon, char), char.element,
           DecodeRarity(char.rarity), DecodeCollab(char.id, char.rarity, v.collab))

Autocomplete(p) ==
    /\ pc[p] = "returned"
    /\ op[p] = "facade"
    /\ values' = [values EXCEPT ![p] = Autocompleted(values[p], result[p])]
    /\ pc' = [pc EXCEPT ![p] = "built"]
    /\ UNCHANGED <<CHARACTER_NAMES, op, input, args, icon_name, result, retline,
                   warned, pre, last, synth, codec>>

\* lines 120-122: the property image of a facade of values v
Image(v) == CreateIcon(v.icon, ImageSpecifier, 2)

\* lines 124-126: the property side_icon of a facade of values v
SideIcon(v) == CreateIcon(v.icon, SideSpecifier, 0)

\* the caller takes the record, the facade or the ValueError and goes on
Finish(p) ==
    /\ Finished(p)
    /\ last' = [last EXCEPT ![p] = NoLast]
    /\ pc' = [pc EXCEPT ![p] = "idle"]
    /\ op' = [op EXCEPT ![p] = "none"]
    /\ input' = [input EXCEPT ![p] = NoInput]
    /\ args' = [args EXCEPT ![p] = NoInput]
    /\ icon_name' = [icon_name EXCEPT ![p] = NoneStr]
    /\ result' = [result EXCEPT ![p] = NoChar]
    /\ retline' = [retline EXCEPT ![p] = 0]
    /\ warned' = [warned EXCEPT ![p] = {}]
    /\ values' = [values EXCEPT ![p] = NoValues]
    /\ pre' = [pre EXCEPT ![p] = CHARACTER_NAMES]
    /\ UNCHANGED <<CHARACTER_NAMES, synth, codec>>

(* ---------------------------------------------------------------------- *)
(* Specifications                                                          *)
(* ---------------------------------------------------------------------- *)
Ops == {"resolve", "facade"}

\* the single caller of the sequential program
Main == 1

\* one call at a time: the module is synchronous
SeqCall(p) ==
    /\ pc[p] = "idle"
    /\ \E o \in Ops, inp \in Inputs : Call(p, o, inp)

Next ==
    \E p \in {Main} :
        \/ SeqCall(p)
        \/ Repeat(p)
        \/ IconLookup(p)
        \/ Synthesize(p)
        \/ NameLookup(p)
        \/ Autocomplete(p)
        \/ Finish(p)

Spec == Init /\ [][Next]_vars

\* Callers on several threads: a thread switch can fall between the id test
\* of line 46, the scan of lines 52-54 and the assignment of line 59.
CorroboratedAyaka == PartialInput(AyakaId, Ayaka, IconAyaka, "Cryo", 5)

CorroboratedOther == PartialInput(AyakaId, Jean, IconAyaka, "Cryo", 105)

CorroboratedKlee == PartialInput(KleeId, Klee, IconSideKlee, "Cryo", 5)

CorroboratedSameKey == PartialInput(KleeId, Klee, IconAyaka, "Cryo", 5)

ConcCalls ==
    { <<"resolve", CorroboratedAyaka>>,
      <<"resolve", CorroboratedOther>>,
      <<"resolve", CorroboratedSameKey>>,
      <<"resolve", PartialInput(AyakaId, NoneStr, NoneStr, NoneElem, NoneInt)>>,
      <<"resolve", PartialInput(NoneInt, Jean, NoneStr, NoneElem, NoneInt)>>,
      <<"facade", PartialInput(JeanId, NoneStr, BareAyaka, NoneElem, 105)>> }

ConcCall(p) ==
    /\ pc[p] = "idle"
    /\ \E c \in ConcCalls : Call(p, c[1], c[2])

ConcNext ==
    \E p \in Procs :
        \/ ConcCall(p)
        \/ IconLookup(p)
        \/ Synthesize(p)
        \/ NameLookup(p)
        \/ Autocomplete(p)
        \/ Finish(p)

ConcSpec == Init /\ [][ConcNext]_vars

\* Concurrent resolve calls that all carry the same corroborating data: while
\* any call is in progress, a new call repeats its input.
SameInputs == {CorroboratedAyaka, CorroboratedOther, CorroboratedKlee, CorroboratedSameKey}

SameCall(p) ==
    /\ pc[p] = "idle"
    /\ \E inp \in SameInputs :
          /\ \A q \in Procs : pc[q] # "idle" => input[q] = inp
          /\ Call(p, "resolve", inp)

SameNext ==
    \E p \in Procs :
        \/ SameCall(p)
        \/ IconLookup(p)
        \/ Synthesize(p)
        \/ Finish(p)

SameSpec == Init /\ [][SameNext]_vars

\* Direct calls of the icon codec on arbitrary strings
callerVars == <<CHARACTER_NAMES, pc, op, input, args, icon_name, result, retline, warned,
                values, pre, last, synth>>

CodecInit ==
    /\ IdleInit
    /\ \E raw \in Strings : codec = [NoCodec EXCEPT !.stage = "raw", !.raw = raw]

\* key = _parse_icon(raw)
ExtractKey ==
    /\ codec.stage = "raw"
    /\ codec' = [codec EXCEPT !.stage = "key", !.key = ParseIcon(codec.raw)]
    /\ UNCHANGED callerVars

\* again = _parse_icon(key)
ExtractAgain ==
    /\ codec.stage = "key"
    /\ codec' = [codec EXCEPT !.stage = "again", !.again = ParseIcon(codec.key)]
    /\ UNCHANGED callerVars

\* url = _create_icon(raw, specifier, scale)
BuildUrl ==
    /\ codec.stage = "raw"
    /\ \E specifier \in Specifiers, scale \in Scales :
          codec' = [codec EXCEPT !.stage = "url", !.specifier = specifier,
                                 !.scale = scale,
                                 !.url = CreateIcon(codec.raw, specifier, scale)]
    /\ UNCHANGED callerVars

CodecNext == ExtractKey \/ ExtractAgain \/ BuildUrl

CodecSpec == CodecInit /\ [][CodecNext]_vars

(* ---------------------------------------------------------------------- *)
(* Vocabulary of the properties                                            *)
(* ---------------------------------------------------------------------- *)
\* the id is given, non-empty, and a key of the registry d
KnownId(d, id) == id # NoneInt /\ id # 0 /\ \E i \in 1..Len(d) : d[i].key = id

GivenInt(x) == x # NoneInt /\ x # 0

GivenStr(s) == s # NoneStr /\ s # <<>>

GivenElem(e) == e # NoneElem /\ e # ""

\* the icon carries the marker of the icon subsystem
HasMarker(icon) == GivenStr(icon) /\ Contains(icon, Genshin)

\* the key each icon of Icons spells out after UI_AvatarIcon_ or
\* UI_AvatarIcon_Side_
SpelledKey(icon) ==
    IF icon = IconQin THEN Qin
    ELSE IF icon = IconAyaka THEN Ayaka
    ELSE IF icon = IconSideKlee THEN Klee
    ELSE IF icon = BareAyaka THEN Ayaka
    ELSE icon

\* some record of d has the icon key
KeyInRegistry(d, key) == \E i \in 1..Len(d) : d[i].val.icon_name = key

NameInRegistry(d, name) == \E i \in 1..Len(d) : d[i].val.name = name

\* a resolve call has ended, with a record or with the ValueError
Resolved(p) == op[p] = "resolve" /\ pc[p] \in {"returned", "raised"}

(* ---------------------------------------------------------------------- *)
(* C1                                                                      *)
(* ---------------------------------------------------------------------- *)
\* C1: in every registry state reachable by resolve calls and facade
\* constructions no two records share an id, and each record is stored
\* under the key equal to its own id field.
C1_UniqueIds ==
    \A i, j \in 1..Len(CHARACTER_NAMES) :
        /\ CHARACTER_NAMES[i].key = CHARACTER_NAMES[i].val.id
        /\ CHARACTER_NAMES[i].val.id = CHARACTER_NAMES[j].val.id => i = j

\* two records have been synthesized next to the built-in ones
C1_Witness == Len(CHARACTER_NAMES) = Len(BuiltIn) + 2

(* ---------------------------------------------------------------------- *)
(* C2                                                                      *)
(* ---------------------------------------------------------------------- *)
\* the input of caller p is fully corroborated for an id the registry did
\* not hold when the call began, with an icon key no record had
Corroborated(p) ==
    /\ GivenInt(input[p].id)
    /\ ~KnownId(pre[p], input[p].id)
    /\ HasMarker(input[p].icon)
    /\ ~KeyInRegistry(pre[p], SpelledKey(input[p].icon))
    /\ GivenStr(input[p].name)
    /\ GivenElem(input[p].element)
    /\ GivenInt(input[p].rarity)

\* C2: self-healing. A resolve with an id not in the registry, a recognizable
\* icon whose key matches no record, and non-empty name, element and rarity
\* inserts and returns the record (id, key, name, element, rarity, guessed);
\* every later resolve that supplies that id returns that same record by the
\* direct id hit, whatever its other fields.
C2_SelfHealing ==
    \A p \in Procs :
        /\ Resolved(p) /\ Corroborated(p) =>
              /\ pc[p] = "returned"
              /\ result[p] = DBChar(input[p].id, SpelledKey(input[p].icon), input[p].name,
                                    input[p].element, input[p].rarity, TRUE)
              /\ CHARACTER_NAMES =
                    Append(pre[p], [key |-> input[p].id, val |-> result[p]])
        /\ \A r \in synth :
              op[p] = "resolve" /\ input[p].id = r.id =>
                  /\ pc[p] = "returned"
                  /\ result[p] = r
                  /\ retline[p] = 47 \/ (retline[p] = 60 /\ ~KnownId(pre[p], r.id))

\* a resolve that supplies nothing but the id of a synthesized record has
\* returned it by the direct id hit
C2_Witness ==
    \E p \in Procs :
        /\ Resolved(p)
        /\ input[p] = PartialInput(AyakaId, NoneStr, NoneStr, NoneElem, NoneInt)
        /\ retline[p] = 47
        /\ result[p] \in synth

(* ---------------------------------------------------------------------- *)
(* C3                                                                      *)
(* ---------------------------------------------------------------------- *)
\* C3: resolution stability. Resolving the same input twice in sequence
\* gives the same outcome both times (the same record fields, or the same
\* error), and the second call neither takes the synthesize-and-insert path
\* nor changes the registry.
C3_Stability ==
    \A p \in Procs :
        Resolved(p) /\ last[p] # NoLast =>
            /\ last[p].input = input[p]
            /\ result[p] = last[p].result
            /\ (retline[p] = 73) = (last[p].retline = 73)
            /\ retline[p] # 60
            /\ CHARACTER_NAMES = pre[p]

\* the first call synthesized and inserted, the second hit the registry
C3_Witness ==
    \E p \in Procs :
        /\ Resolved(p)
        /\ last[p].retline = 60
        /\ retline[p] = 47
        /\ result[p].guessed

(* ---------------------------------------------------------------------- *)
(* C6                                                                      *)
(* ---------------------------------------------------------------------- *)
\* caller p supplied an icon and nothing else
OnlyIcon(p) ==
    /\ GivenStr(input[p].icon)
    /\ input[p].id = NoneInt
    /\ input[p].name = NoneStr
    /\ input[p].element = NoneElem
    /\ input[p].rarity = NoneInt

\* the transient record of key K and its warning, the registry untouched
TransientFor(p, K) ==
    /\ pc[p] = "returned"
    /\ result[p] = DBChar(0, K, K, "Anemo", 5, TRUE)
    /\ warned[p] # {}
    /\ CHARACTER_NAMES = pre[p]

\* C6 as stated: resolving only the bare string UI_AvatarIcon_Ayaka.png,
\* with no record of icon key Ayaka, returns the transient record
\* (0, Ayaka, Ayaka, Anemo, 5, guessed) and warns.
C6_BareIconTransient ==
    \A p \in Procs :
        /\ Resolved(p)
        /\ OnlyIcon(p)
        /\ input[p].icon = BareAyaka
        /\ ~KeyInRegistry(pre[p], Ayaka)
        => TransientFor(p, Ayaka)

\* C6 amended: resolving only an icon that contains the marker genshin and
\* spells UI_AvatarIcon_K.png or UI_AvatarIcon_Side_K.png, with no record of
\* icon key K, returns the transient record (0, K, K, Anemo, 5, guessed),
\* warns and leaves the registry as it was; the bare string without the
\* marker raises the ValueError.
C6_MarkedIconTransient ==
    \A p \in Procs :
        /\ Resolved(p) /\ OnlyIcon(p) /\ HasMarker(input[p].icon)
              /\ ~KeyInRegistry(pre[p], SpelledKey(input[p].icon))
           => /\ TransientFor(p, SpelledKey(input[p].icon))
              /\ warned[p] = {Warning(62, NoneInt, SpelledKey(input[p].icon), NoneStr)}
        /\ Resolved(p) /\ OnlyIcon(p) /\ input[p].icon = BareAyaka
           => pc[p] = "raised" /\ CHARACTER_NAMES = pre[p]

\* the URL of the Ayaka icon alone has been resolved to the transient record
C6_Witness ==
    \E p \in Procs :
        /\ Resolved(p)
        /\ OnlyIcon(p)
        /\ input[p].icon = IconAyaka
        /\ result[p] = DBChar(0, Ayaka, Ayaka, "Anemo", 5, TRUE)
        /\ retline[p] = 63

(* ---------------------------------------------------------------------- *)
(* C7                                                                      *)
(* ---------------------------------------------------------------------- *)
\* C7 as stated: a facade built from a raw rarity above 100 ends with the
\* raw rarity minus 100 and collab set; a facade built from raw rarity 5
\* whose id is not the Aloy id ends with collab unset and rarity 5.
C7_RawRarityDecoded ==
    \A p \in Procs :
        pc[p] = "built" =>
            /\ input[p].rarity > 100 =>
                  values[p].rarity = input[p].rarity - 100 /\ values[p].collab
            /\ input[p].rarity = 5 /\ input[p].id # AloyId =>
                  values[p].rarity = 5 /\ ~values[p].collab

\* C7 amended: the facade decodes the rarity of the record the reconciler
\* returned, not the raw rarity of the caller. A record rarity above 100
\* ends as that rarity minus 100 with collab set; a record rarity of at most
\* 100 on a record whose id is not the Aloy id ends unchanged with collab
\* unset. The raw rarity is decoded only when it reached the record, that
\* is when the record is a transient or a newly synthesized one.
C7_RecordRarityDecoded ==
    \A p \in Procs :
        pc[p] = "built" =>
            /\ result[p].rarity > 100 =>
                  values[p].rarity = result[p].rarity - 100 /\ values[p].collab
            /\ result[p].rarity <= 100 /\ result[p].id # AloyId =>
                  values[p].rarity = result[p].rarity /\ ~values[p].collab
            /\ retline[p] \in {63, 71} /\ input[p].rarity > 100 =>
                  values[p].rarity = input[p].rarity - 100 /\ values[p].collab

\* a facade given the raw rarity 5 was built on the Aloy record of rarity
\* 105 and ended with rarity 5 and collab set
C7_Witness ==
    \E p \in Procs :
        /\ pc[p] = "built"
        /\ result[p].rarity = 105
        /\ values[p].rarity = 5
        /\ values[p].collab
        /\ input[p].rarity = 5

(* ---------------------------------------------------------------------- *)
(* C8                                                                      *)
(* ---------------------------------------------------------------------- *)
\* a facade construction has ended, with the values or with the ValueError
Constructed(p) == op[p] = "facade" /\ pc[p] \in {"built", "raised"}

\* C8: the facade takes id, name and element from the record that resolve
\* returns for the same fields in the same roles; in particular a facade
\* built from only a name that matches a record adopts that record's id,
\* and a facade built from only a recognizable icon whose key matches a
\* record adopts that record's id and name.
C8_FacadeFollowsResolve ==
    \A p \in Procs :
        /\ Constructed(p)
              /\ input[p].id = NoneInt /\ input[p].icon = NoneStr
              /\ GivenStr(input[p].name) /\ NameInRegistry(pre[p], input[p].name)
           => /\ pc[p] = "built"
              /\ values[p].id = pre[p][FindByName(pre[p], input[p].name)].val.id
        /\ Constructed(p)
              /\ input[p].id = NoneInt /\ input[p].name = NoneStr
              /\ HasMarker(input[p].icon)
              /\ KeyInRegistry(pre[p], SpelledKey(input[p].icon))
           => /\ pc[p] = "built"
              /\ LET r == pre[p][FindByIconName(pre[p], SpelledKey(input[p].icon))].val
                 IN  values[p].id = r.id /\ values[p].name = r.name

(* ---------------------------------------------------------------------- *)
(* C9                                                                      *)
(* ---------------------------------------------------------------------- *)
\* C9 as stated: resolve raises exactly when none of id, a recognizable icon
\* or a name is present; a raising call leaves the registry unchanged.
C9_RaisesIffNothingPresent ==
    \A p \in Procs :
        Resolved(p) =>
            /\ (pc[p] = "raised") =
                  (/\ ~GivenInt(input[p].id)
                   /\ ~HasMarker(input[p].icon)
                   /\ ~GivenStr(input[p].name))
            /\ pc[p] = "raised" => CHARACTER_NAMES = pre[p]

\* C9 amended: resolve raises exactly when the id is absent or not a key of
\* the registry, the icon is absent or not recognizable, and the name is
\* absent; in every other case it returns a record, and a raising call
\* leaves the registry unchanged.
C9_RaisesIffNothingUsable ==
    \A p \in Procs :
        Resolved(p) =>
            /\ (pc[p] = "raised") =
                  (/\ ~KnownId(pre[p], input[p].id)
                   /\ ~HasMarker(input[p].icon)
                   /\ ~GivenStr(input[p].name))
            /\ pc[p] = "raised" => CHARACTER_NAMES = pre[p] /\ retline[p] = 73
            /\ pc[p] = "returned" => result[p] # NoChar

\* a resolve that supplied only an id the registry does not hold has raised
C9_Witness ==
    \E p \in Procs :
        /\ Resolved(p)
        /\ pc[p] = "raised"
        /\ input[p] = PartialInput(AyakaId, NoneStr, NoneStr, NoneElem, NoneInt)

(* ---------------------------------------------------------------------- *)
(* C10                                                                     *)
(* ---------------------------------------------------------------------- *)
\* C10: the direct id hit is authoritative. Whenever the input id is a key
\* of the registry, resolve returns exactly the record stored under it, for
\* every combination of the other fields, and leaves the registry unchanged.
C10_DirectIdHit ==
    \A p \in Procs :
        op[p] = "resolve" /\ KnownId(pre[p], input[p].id) =>
            /\ pc[p] = "returned"
            /\ retline[p] = 47
            /\ \E i \in 1..Len(pre[p]) :
                  pre[p][i].key = input[p].id /\ result[p] = pre[p][i].val
            /\ warned[p] = {}
            /\ CHARACTER_NAMES = pre[p]

\* the id of Aloy was resolved together with the name and the icon of Jean
C10_Witness ==
    \E p \in Procs :
        /\ Resolved(p)
        /\ input[p].id = AloyId
        /\ input[p].name = Jean
        /\ input[p].icon = IconQin
        /\ result[p].name = Aloy

(* ---------------------------------------------------------------------- *)
(* C4                                                                      *)
(* ---------------------------------------------------------------------- *)
\* number of items of the registry stored under the id
Entries(id) == Cardinality({i \in 1..Len(CHARACTER_NAMES) : CHARACTER_NAMES[i].key = id})

C5_FirstWriterWins ==
    \A p, q \in Procs :
        /\ Resolved(p) /\ Resolved(q)
              /\ GivenInt(input[p].id) /\ input[p].id = input[q].id
              /\ pc[p] = "returned" /\ pc[q] = "returned"
           => result[p] = result[q]
        /\ Resolved(p) /\ retline[p] = 60
           => \E i \in 1..Len(CHARACTER_NAMES) :
                 CHARACTER_NAMES[i] = [key |-> input[p].id, val |-> result[p]]

(* ---------------------------------------------------------------------- *)
(* C11                                                                     *)
(* ---------------------------------------------------------------------- *)
\* the URL of the character icon of a key, without scale
CanonicalUrl(key) == ICON_BASE \o IconSpecifier \o Underscore \o key \o DotPng

\* C11: the icon of the facade. A supplied, non-empty icon that is not
\* recognizable is replaced by the canonical URL of the record's icon key
\* when the record's id is not 0; a recognizable icon, or any supplied icon
\* when the record's id is 0, is kept as given; with no icon or an empty one
\* the facade's icon is the canonical URL.
C11_FacadeIcon ==
    \A p \in Procs :
        pc[p] = "built" =>
            LET supplied == input[p].icon
                canonical == CanonicalUrl(result[p].icon_name)
            IN  /\ GivenStr(supplied) /\ ~HasMarker(supplied) /\ result[p].id # 0
                   => values[p].icon = canonical
                /\ GivenStr(supplied) /\ (HasMarker(supplied) \/ result[p].id = 0)
                   => values[p].icon = supplied
                /\ ~GivenStr(supplied) => values[p].icon = canonical

\* the shorthand UI_AvatarIcon_Ayaka.png, supplied with the id of Jean, was
\* replaced by the URL of the Qin icon
C11_Witness ==
    \E p \in Procs :
        /\ pc[p] = "built"
        /\ input[p].icon = BareAyaka
        /\ result[p].id = JeanId
        /\ values[p].icon = IconQin

(* ---------------------------------------------------------------------- *)
(* C12                                                                     *)
(* ---------------------------------------------------------------------- *)
\* number of places where t occurs in s
Occurrences(s, t) == Cardinality({i \in 1..Len(s) : At(s, i, t)})

\* C12 as stated: _parse_icon is idempotent on every string, also when the
\* pattern is nested inside its own capture.
C12_Idempotent == codec.stage = "again" => codec.again = codec.key

\* C12 amended: _parse_icon applied to its own result changes nothing for
\* every string in which UI_AvatarIcon occurs at most once, also when the
\* capture ends in .png; a pattern nested inside the capture is extracted
\* again by the second application.
C12_IdempotentSingle ==
    codec.stage = "again" /\ Occurrences(codec.raw, UI_AvatarIcon) <= 1 =>
        codec.again = codec.key

\* the key a.png was extracted from UI_AvatarIcon_a.png.png and extracting
\* again left it as it was
C12_Witness ==
    /\ codec.stage = "again"
    /\ codec.raw = PrefixNoSide \o LetterA \o DotPng \o DotPng
    /\ codec.key = LetterA \o DotPng
    /\ codec.again = codec.key

(* ---------------------------------------------------------------------- *)
(* C13                                                                     *)
(* ---------------------------------------------------------------------- *)
StartsWith(s, t) == At(s, 1, t)

EndsWith(s, t) == At(s, Len(s) - Len(t) + 1, t)

Mark2x ==
    <<"@", "2", "x">>

\* the keys that the icon fields of the facades spell out
FacadeKeys == {Qin, Aloy, Ayaka, Klee, ShortQin2x}

\* the icon field is the key K itself, or an icon or side icon of K
Spells(icon, K) ==
    icon \in { K,
               UI_AvatarIcon \o Underscore \o K \o DotPng,
               ICON_BASE \o IconSpecifier \o Underscore \o K \o DotPng,
               ICON_BASE \o SideSpecifier \o Underscore \o K \o DotPng }

\* image and side_icon are built from the key K with their purpose tags,
\* start with the base and end in .png, the image with @2x before it
UrlsOfKey(v, K) ==
    /\ Image(v) = ICON_BASE \o ImageSpecifier \o Underscore \o K \o Mark2x \o DotPng
    /\ SideIcon(v) = ICON_BASE \o SideSpecifier \o Underscore \o K \o DotPng
    /\ StartsWith(Image(v), ICON_BASE) /\ EndsWith(Image(v), Mark2x \o DotPng)
    /\ StartsWith(SideIcon(v), ICON_BASE) /\ EndsWith(SideIcon(v), DotPng)

\* C13 as stated: for every facade, image and sideIcon begin with the base
\* and end in .png, the image has @2x right before .png, the sideIcon never
\* contains @2x, and both are built from the key extracted from the icon
\* field with their purpose tags.
C13_SideIconNever2x ==
    \A p \in Procs :
        pc[p] = "built" =>
            /\ \E K \in FacadeKeys : Spells(values[p].icon, K)
            /\ \A K \in FacadeKeys : Spells(values[p].icon, K) => UrlsOfKey(values[p], K)
            /\ ~Contains(SideIcon(values[p]), Mark2x)

\* C13 amended: as stated, except that the sideIcon gets no scale suffix of
\* its own: it is base, purpose tag, underscore, key, .png, and so contains
\* @2x exactly when the key extracted from the icon field does.
C13_SideIconNoSuffix ==
    \A p \in Procs :
        pc[p] = "built" =>
            /\ \E K \in FacadeKeys : Spells(values[p].icon, K)
            /\ \A K \in FacadeKeys :
                  Spells(values[p].icon, K) =>
                      /\ UrlsOfKey(values[p], K)
                      /\ Contains(SideIcon(values[p]), Mark2x) = Contains(K, Mark2x)

\* a facade kept the supplied shorthand Qin@2x as its icon, and its
\* side_icon holds @2x
C13_Witness ==
    \E p \in Procs :
        /\ pc[p] = "built"
        /\ values[p].icon = ShortQin2x
        /\ Contains(SideIcon(values[p]), Mark2x)
        /\ EndsWith(Image(values[p]), Mark2x \o Mark2x \o DotPng)

(* ---------------------------------------------------------------------- *)
(* C14                                                                     *)
(* ---------------------------------------------------------------------- *)
\* C14: transient records are never registered. A resolve that returns a
\* record of id 0 leaves the registry as it was before the call, and no
\* registry state holds a record under the key 0 or with the id 0, even when
\* the caller supplies the id 0 with a recognizable icon, a name, an element
\* and a rarity.
C14_TransientUnregistered ==
    /\ \A i \in 1..Len(CHARACTER_NAMES) :
          CHARACTER_NAMES[i].key # 0 /\ CHARACTER_NAMES[i].val.id # 0
    /\ \A p \in Procs :
          Resolved(p) /\ pc[p] = "returned" /\ result[p].id = 0 =>
              CHARACTER_NAMES = pre[p]

\* the id 0 was resolved with full corroborating data of an unknown icon
\* key, and a transient record came back
C14_Witness ==
    \E p \in Procs :
        /\ Resolved(p)
        /\ input[p].id = 0
        /\ HasMarker(input[p].icon)
        /\ ~KeyInRegistry(pre[p], SpelledKey(input[p].icon))
        /\ GivenStr(input[p].name)
        /\ GivenElem(input[p].element)
        /\ GivenInt(input[p].rarity)
        /\ result[p].id = 0
        /\ retline[p] = 63

(* ---------------------------------------------------------------------- *)
(* C15                                                                     *)
(* ---------------------------------------------------------------------- *)
\* C15: the registry only grows. Over any sequence of resolve calls and
\* facade constructions, no step removes, replaces or edits a record: each
\* item present before a step is the same item, at the same place, after it.
C15_RegistryOnlyGrows ==
    [][ /\ Len(CHARACTER_NAMES') >= Len(CHARACTER_NAMES)
        /\ \A i \in 1..Len(CHARACTER_NAMES) : CHARACTER_NAMES'[i] = CHARACTER_NAMES[i]
      ]_vars

\* a facade was built after a record had been synthesized, the built-in
\* records still in place
C15_Witness ==
    \E p \in Procs :
        /\ pc[p] = "built"
        /\ Len(CHARACTER_NAMES) > Len(BuiltIn)
        /\ SubSeq(CHARACTER_NAMES, 1, Len(BuiltIn)) = BuiltIn
        /\ CHARACTER_NAMES[Len(CHARACTER_NAMES)].val \in synth

(* ---------------------------------------------------------------------- *)
(* C16                                                                     *)
(* ---------------------------------------------------------------------- *)
\* the transient record of a key for the element and rarity of caller p
GuessFor(p, key) ==
    DBChar(0, key, key,
           IF GivenElem(input[p].element) THEN input[p].element ELSE "Anemo",
           IF GivenInt(input[p].rarity) THEN input[p].rarity ELSE 5,
           TRUE)

\* C16: the name-keyed lookup applies only when there was no direct id hit
\* and the icon is absent or unrecognizable. With a name present, resolve
\* returns the first record of that name, or on a miss the transient record
\* (0, name, name, element or Anemo, rarity or 5, guessed), the supplied id
\* discarded. With a recognizable icon the name is never looked up, even if
\* it matches a record.
C16_NameLookup ==
    \A p \in Procs :
        Resolved(p) /\ ~KnownId(pre[p], input[p].id) =>
            /\ ~HasMarker(input[p].icon) /\ GivenStr(input[p].name)
                  /\ NameInRegistry(pre[p], input[p].name)
               => /\ retline[p] = 68
                  /\ \E i \in 1..Len(pre[p]) :
                        /\ pre[p][i].val.name = input[p].name
                        /\ \A j \in 1..(i - 1) : pre[p][j].val.name # input[p].name
                        /\ result[p] = pre[p][i].val
                  /\ CHARACTER_NAMES = pre[p]
            /\ ~HasMarker(input[p].icon) /\ GivenStr(input[p].name)
                  /\ ~NameInRegistry(pre[p], input[p].name)
               => /\ retline[p] = 71
                  /\ result[p] = GuessFor(p, input[p].name)
                  /\ CHARACTER_NAMES = pre[p]
            /\ HasMarker(input[p].icon)
               => /\ retline[p] \in {54, 60, 63}
                  /\ result[p].icon_name = SpelledKey(input[p].icon)
                  /\ retline[p] = 63 => result[p] = GuessFor(p, SpelledKey(input[p].icon))

\* the name Jean alone was resolved while two records bore it, and the
\* built-in one, the first, came back
C16_Witness ==
    \E p \in Procs :
        /\ Resolved(p)
        /\ retline[p] = 68
        /\ input[p].name = Jean
        /\ Cardinality({i \in 1..Len(pre[p]) : pre[p][i].val.name = Jean}) = 2
        /\ result[p].id = JeanId

(* ---------------------------------------------------------------------- *)
(* C17                                                                     *)
(* ---------------------------------------------------------------------- *)
\* C17: icon keys are unique. From built-in records of pairwise distinct
\* icon keys, no registry state holds two records of the same icon key,
\* also under concurrent resolves for two different unknown ids that carry
\* the same icon key.
C17_UniqueIconKeys ==
    \A i, j \in 1..Len(CHARACTER_NAMES) :
        CHARACTER_NAMES[i].val.icon_name = CHARACTER_NAMES[j].val.icon_name => i = j

(* ---------------------------------------------------------------------- *)
(* C18                                                                     *)
(* ---------------------------------------------------------------------- *)
\* the registry d holds the record under the record's id
Registered(d, char) == \E i \in 1..Len(d) : d[i] = [key |-> char.id, val |-> char]

\* the step in which the call of caller p returns a record: a first call or
\* a repeated one (lines 47, 54, 60, 63, 68, 71)
ReturnStep(p) ==
    /\ pc'[p] = "returned"
    /\ pc[p] # "returned" \/ last'[p] # last[p]

\* C18: a returned record is registered or transient. When _get_db_char
\* returns a record of an id other than 0, the registry holds that record
\* under that id; when the returned record was not in the registry before
\* the call, it is flagged guessed.
C18_RegisteredOrTransient ==
    [][ \A p \in Procs :
            ReturnStep(p) =>
                /\ result'[p].id # 0 => Registered(CHARACTER_NAMES', result'[p])
                /\ ~Registered(pre'[p], result'[p]) => result'[p].guessed
      ]_vars

\* a call returned the record it had just synthesized: not in the registry
\* before the call, registered at the return, flagged guessed
C18_Witness ==
    \E p \in Procs :
        /\ pc[p] = "returned"
        /\ retline[p] = 60
        /\ ~Registered(pre[p], result[p])
        /\ Registered(CHARACTER_NAMES, result[p])
        /\ result[p].guessed

(* ---------------------------------------------------------------------- *)
(* C19                                                                     *)
(* ---------------------------------------------------------------------- *)
\* the scale suffix the specification gives: @, the scale, x for a positive
\* scale, nothing for any other scale
PositiveScaleSuffix(scale) ==
    IF scale > 0 THEN <<"@">> \o IntToStr(scale) \o <<"x">> ELSE <<>>

\* C19: the url has a scale suffix exactly for a positive scale. A url built
\* of a key, a purpose tag and a scale is the base, the purpose tag, an
\* underscore, the key and .png, with @, the scale and x before .png exactly
\* when the scale is greater than 0; a scale of 0 or a negative scale gives
\* no suffix.
C19_ScaleSuffixOnlyPositive ==
    codec.stage = "url" =>
        codec.url = ICON_BASE \o codec.specifier \o Underscore
                        \o ParseIcon(codec.raw)
                        \o PositiveScaleSuffix(codec.scale) \o DotPng

====
